---- MODULE Spec2Model ----
(***************************************************************************)
(* A model of asyncio-simple-http-server: the HttpHeaders table, the       *)
(* response serializer (http_util.py), the route table and the             *)
(* per-connection read / dispatch / write loop of HttpServer (server.py).  *)
(*                                                                         *)
(* Representation.  An optional Python value (None or a value) is a        *)
(* sequence of length 0 or 1.  A str or bytes value is a string.  A dict  *)
(* is a sequence of [k, l] entries in insertion order.                     *)
(* A header value is a string; the decimal rendering the f-string of       *)
(* http_send_response gives an integer is IntStr.                          *)
(***************************************************************************)
EXTENDS Integers, Sequences, FiniteSets, TLC

VARIABLES
    _server,                    \* HttpServer._server: <<>> (None) or <<listener>>
    _default_response_headers,  \* HttpServer._default_response_headers
    _static_routes,             \* HttpServer._static_routes: dict key -> (route, method)
    _regex_routes,              \* HttpServer._regex_routes: list of (route, method)
    registered,                 \* history: the handler objects given to add_handler, in order
    defaults_added,             \* history: the tables given to add_default_response_headers, in order
    lookup,                     \* the last _find_route call made on its own in the present table: (request, result)
    pc,                         \* per connection: position of its _handle_client coroutine
    request,                    \* per connection: the request being served ('request' of _handle_client)
    found,                      \* per connection: its route and method ('route, method' of _handle_client)
    response,                   \* per connection: the response being sent
    ctx,                        \* per connection: the caller of the running _send_response
    wire,                       \* per connection: what writer.write has been given for this request
    handler_calls,              \* per connection: history, the handlers invoked for this request
    io_failed,                  \* per connection: history, a write/flush on the transport has failed
    n_read,                     \* per connection: requests http_parser has returned
    n_sent,                     \* per connection: responses completely written and flushed
    peer,                       \* per connection: history, the name of the script its peer follows
    incoming,                   \* per connection: the chunks its peer has still to deliver
    buffer,                     \* per connection: the bytes held by its StreamReader
    eof,                        \* per connection: feed_eof was called on its StreamReader
    stalled,                    \* per connection: its peer has stopped delivering
    parsing,                    \* per connection: the position and the locals of http_parser
    parser_exit,                \* per connection: how http_parser ended the loop ("" while it has not)
    call_pc,                    \* per call of start or serve_forever: its position
    created                     \* the listeners asyncio.start_server has created, in order

vars == << _server, _default_response_headers, _static_routes, _regex_routes, registered,
           defaults_added, lookup, pc, request, found, response, ctx, wire,
           handler_calls, io_failed, n_read, n_sent, peer, incoming, buffer, eof, stalled,
           parsing, parser_exit, call_pc, created >>

serverVars == << _server, _default_response_headers, _static_routes, _regex_routes,
                 registered, defaults_added >>

connVars == << pc, request, found, response, ctx, wire, handler_calls,
               io_failed, n_read, n_sent >>

readerVars == << peer, incoming, buffer, eof, stalled, parsing, parser_exit >>

lifeVars == << call_pc, created >>

(***************************************************************************)
(* Bounds of the model.                                                    *)
(***************************************************************************)
NumConns == 2        \* connections accepted by the listener
MaxRequests == 2     \* requests read by the server, all connections together

NumCalls == 3        \* calls of start and serve_forever made by the application

Conns == 1 .. NumConns

Calls == 1 .. NumCalls

None == << >>
Some(x) == << x >>
IsNone(o) == Len(o) = 0
Get(o) == o[1]

RECURSIVE SumLen(_)
SumLen(s) ==
    IF s = << >> THEN 0 ELSE Len(Head(s)) + SumLen(Tail(s))

(***************************************************************************)
(* HttpHeaders (http_util.py).  _headers is a dict: a sequence of entries  *)
(* [k |-> key, l |-> list of values] in insertion order.                   *)
(***************************************************************************)

\* str.lower() on the header names the model uses
Lower(key) ==
    CASE key = "X-Foo" -> "x-foo"
      [] key = "Content-Length" -> "content-length"
      [] key = "Content-Type" -> "content-type"
      [] key = "Accept" -> "accept"
      [] OTHER -> key

\* HttpHeaders(): an empty _headers dict
HttpHeaders == << >>

DictKeys(d) == { d[i].k : i \in 1 .. Len(d) }

DictIndex(d, key) == CHOOSE i \in 1 .. Len(d) : d[i].k = key

\* dict.get(key): None or the list stored under key
DictGet(d, key) ==
    IF key \in DictKeys(d) THEN Some(d[DictIndex(d, key)].l) ELSE None

\* d[key] = l: replaces in place, a new key goes last
DictPut(d, key, l) ==
    IF key \in DictKeys(d)
    THEN [d EXCEPT ![DictIndex(d, key)] = [k |-> key, l |-> l]]
    ELSE Append(d, [k |-> key, l |-> l])

\* HttpHeaders.set: self._headers[key.lower()] = [value]
set(h, key, value) ==
    DictPut(h, Lower(key), << value >>)

\* (mutant of add: the key is stored as given)
add_as_given(h, key, value) ==
    LET old == DictGet(h, key)
    IN  DictPut(h, key, (IF IsNone(old) THEN << >> ELSE Get(old)) \o << value >>)

\* HttpHeaders.add: self._headers.setdefault(key.lower(), []).append(value)
add(h, key, value) ==
    LET old == DictGet(h, Lower(key))
    IN  DictPut(h, Lower(key), (IF IsNone(old) THEN << >> ELSE Get(old)) \o << value >>)

\* d.setdefault(key, []).append(value)
add_value(d, key, value) ==
    DictPut(d, key, (IF IsNone(DictGet(d, key)) THEN << >> ELSE Get(DictGet(d, key)))
                    \o << value >>)

\* HttpHeaders.get_list
get_list(h, key) == DictGet(h, Lower(key))

\* HttpHeaders.get with the default transform: first value or default
get(h, key, default) ==
    LET v == get_list(h, key)
    IN  IF ~IsNone(v) /\ Len(Get(v)) > 0 THEN Get(v)[1] ELSE default

\* HttpHeaders.merge.  'other' is [isHeaders, d]: an HttpHeaders (d is its _headers)
\* or a plain dict whose values are a list ([islist |-> TRUE, v |-> list]) or one
\* value ([islist |-> FALSE, v |-> <<value>>]).  Neither branch lower-cases k.
RECURSIVE merge_from(_, _, _)
merge_from(h, other, i) ==
    IF i > Len(other.d) THEN h
    ELSE LET e == other.d[i]
             old == DictGet(h, e.k)
             hlist == IF IsNone(old) THEN << >> ELSE Get(old)
             ext == IF other.isHeaders THEN e.l ELSE e.l.v
         IN  merge_from(DictPut(h, e.k, hlist \o ext), other, i + 1)

merge(h, other) == merge_from(h, other, 1)

AsHeaders(h) == [isHeaders |-> TRUE, d |-> h]

\* HttpHeaders.items: one (key, value) per value, dict order then list order
RECURSIVE items(_)
items(h) ==
    IF h = << >> THEN << >>
    ELSE [i \in 1 .. Len(Head(h).l) |-> << Head(h).k, Head(h).l[i] >>] \o items(Tail(h))

\* HttpHeaders.__len__, which is also the truth value of an HttpHeaders
HeadersLen(h) == SumLen([i \in 1 .. Len(h) |-> h[i].l])

(***************************************************************************)
(* Regular expressions.  re.compile is modelled for the syntax the routes  *)
(* use: ^, $, a named group of non-slash characters (item "seg"), a group  *)
(* of any characters (item "any") and literal characters.  A compiled      *)
(* pattern is a sequence of items [k, c].                                  *)
(***************************************************************************)
Char(s, i) == SubSeq(s, i, i)

StartsWith(s, i, p) ==
    i + Len(p) - 1 <= Len(s) /\ SubSeq(s, i, i + Len(p) - 1) = p

\* str.find(ch, from): the first index >= from holding ch, 0 when there is none
IndexFrom(s, ch, from) ==
    IF \E i \in from .. Len(s) : Char(s, i) = ch
    THEN CHOOSE i \in from .. Len(s) :
             Char(s, i) = ch /\ \A j \in from .. i - 1 : Char(s, j) # ch
    ELSE 0

RECURSIVE re_compile_from(_, _)
re_compile_from(src, i) ==
    IF i > Len(src) THEN << >>
    ELSE IF StartsWith(src, i, "(?P<")
    THEN LET close == IndexFrom(src, ">", i + 4)
         IN  << [k |-> "seg", c |-> SubSeq(src, i + 4, close - 1)] >>
                 \o re_compile_from(src, close + 7)      \* skips the rest of the group
    ELSE IF StartsWith(src, i, "(.*)")
    THEN << [k |-> "any", c |-> ""] >> \o re_compile_from(src, i + 4)
    ELSE IF Char(src, i) = "^"
    THEN << [k |-> "bol", c |-> ""] >> \o re_compile_from(src, i + 1)
    ELSE IF Char(src, i) = "$"
    THEN << [k |-> "eol", c |-> ""] >> \o re_compile_from(src, i + 1)
    ELSE << [k |-> "lit", c |-> Char(src, i)] >> \o re_compile_from(src, i + 1)

re_compile(src) == re_compile_from(src, 1)

Max(S) == CHOOSE x \in S : \A y \in S : y <= x

\* The groups captured when the items match s from position pos (the number of
\* characters consumed), None when they do not match.  A group takes the longest
\* run that lets the rest match, as the backtracking matcher does.
RECURSIVE re_groups_at(_, _, _)
re_groups_at(its, s, pos) ==
    IF its = << >> THEN Some(<< >>)
    ELSE LET it == Head(its)
             rest == Tail(its)
             runs == { n \in 0 .. Len(s) - pos :
                         /\ it.k = "seg" => \A i \in pos + 1 .. pos + n : Char(s, i) # "/"
                         /\ ~IsNone(re_groups_at(rest, s, pos + n)) }
         IN  CASE it.k = "bol" -> IF pos = 0 THEN re_groups_at(rest, s, pos) ELSE None
               [] it.k = "eol" -> IF pos = Len(s) THEN re_groups_at(rest, s, pos) ELSE None
               [] it.k = "lit" ->
                      IF pos < Len(s) /\ Char(s, pos + 1) = it.c
                      THEN re_groups_at(rest, s, pos + 1) ELSE None
               [] OTHER ->
                      IF runs = {} THEN None
                      ELSE Some(<< SubSeq(s, pos + 1, pos + Max(runs)) >>
                                \o Get(re_groups_at(rest, s, pos + Max(runs))))

\* Pattern.match(path) is not None: a match anchored at the start of path only
re_match(pattern, path) == ~IsNone(re_groups_at(pattern, path, 0))

\* re.findall(pattern, path) for a pattern that starts with ^: at most one match,
\* given as the list of its groups (Python yields the group itself for one group,
\* the tuple of groups for several, the whole match for none)
re_findall(pattern, path) ==
    LET g == re_groups_at(pattern, path, 0)
    IN  IF IsNone(g) THEN << >> ELSE << Get(g) >>

(***************************************************************************)
(* Routes (server.py).  UriRoute.path is [static, s, re]: a str s, or the  *)
(* pattern re compiled from the source s.  http_method is the sequence     *)
(* http_methods() yields (one element for a str).  A method is named by    *)
(* its attribute name.                                                     *)
(***************************************************************************)
StaticPath(s) == [static |-> TRUE, s |-> s, re |-> << >>]
Pattern(src) == [static |-> FALSE, s |-> src, re |-> re_compile(src)]

UriRoute(path, http_method, uri_variables, call_args) ==
    [path |-> path, http_method |-> http_method,
     uri_variables |-> uri_variables, call_args |-> call_args]

is_static(route) == route.path.static

http_methods(route) == route.http_method

SeqToSet(s) == { s[i] : i \in 1 .. Len(s) }

\* UriRoute.match   (mutant: the method loop is dropped)
match_any_method(route, http_method, path) ==
    IF is_static(route) THEN path = route.path.s
    ELSE re_match(route.path.re, path)

match(route, http_method, path) ==
    IF http_method \notin SeqToSet(http_methods(route)) THEN FALSE
    ELSE IF is_static(route) THEN path = route.path.s
    ELSE re_match(route.path.re, path)

\* _uri_variable_to_pattern: (uri_variables, source of the anchored pattern)
RECURSIVE uri_variable_parts(_, _, _, _)
uri_variable_parts(uri, last_index, uri_variables, uri_parts) ==
    LET start == IndexFrom(uri, "{", last_index + 1)
        end == IF start = 0 THEN 0 ELSE IndexFrom(uri, "}", start + 1)
    IN  IF start = 0 \/ end = 0
        THEN << uri_variables,
                uri_parts \o SubSeq(uri, last_index + 1, Len(uri)) \o "$" >>
        ELSE uri_variable_parts(uri, end,
                 Append(uri_variables, SubSeq(uri, start + 1, end - 1)),
                 uri_parts \o SubSeq(uri, last_index + 1, start - 1)
                     \o "(?P<" \o SubSeq(uri, start + 1, end - 1) \o ">[^/]*)")

\* mutant: the closing '$' is not appended
_uri_variable_to_pattern_open(uri) ==
    LET p == uri_variable_parts(uri, 0, << >>, "^")
    IN  << p[1], SubSeq(p[2], 1, Len(p[2]) - 1) >>

_uri_variable_to_pattern(uri) == uri_variable_parts(uri, 0, << >>, "^")

\* the three decorators: the route each attaches to the decorated function
uri_mapping(path, method, call_args) ==
    UriRoute(StaticPath(path), method, None, call_args)

uri_pattern_mapping(path, method, call_args) ==
    UriRoute(Pattern(path), method, None, call_args)

uri_variable_mapping(path, method, call_args) ==
    LET p == _uri_variable_to_pattern(path)
    IN  UriRoute(Pattern(p[2]), method, Some(p[1]), call_args)

\* the key f'{http_method}:{path}' of _static_routes
RouteKey(http_method, path) == http_method \o ":" \o path

\* _scan_handler_for_uri_routes: a handler object is the sequence of its routable
\* attributes [attr, routes] in dir() order; yields (method, route) pairs
RECURSIVE _scan_handler_for_uri_routes(_)
_scan_handler_for_uri_routes(handler) ==
    IF handler = << >> THEN << >>
    ELSE [i \in 1 .. Len(Head(handler).routes) |->
              [method |-> Head(handler).attr, route |-> Head(handler).routes[i]]]
         \o _scan_handler_for_uri_routes(Tail(handler))

RECURSIVE PutStatic(_, _, _, _)
PutStatic(static_routes, route, method, i) ==
    IF i > Len(http_methods(route)) THEN static_routes
    ELSE PutStatic(DictPut(static_routes, RouteKey(http_methods(route)[i], route.path.s),
                           [route |-> route, method |-> method]),
                   route, method, i + 1)

\* the loop of add_handler over the scanned pairs: tables is [static, regex]
RECURSIVE RegisterAll(_, _)
RegisterAll(tables, pairs) ==
    IF pairs = << >> THEN tables
    ELSE LET p == Head(pairs)
         IN  RegisterAll(
                 IF is_static(p.route)
                 THEN [tables EXCEPT !.static = PutStatic(@, p.route, p.method, 1)]
                 ELSE [tables EXCEPT !.regex = Append(@, [route |-> p.route, method |-> p.method])],
                 Tail(pairs))

\* the for loop of _find_route over _regex_routes
RECURSIVE FirstRegex(_, _, _)
FirstRegex(regex_routes, http_method, path) ==
    IF regex_routes = << >> THEN None
    ELSE IF match(Head(regex_routes).route, http_method, path)
    THEN Some(Head(regex_routes))
    ELSE FirstRegex(Tail(regex_routes), http_method, path)

\* mutant of _find_route: the pattern list is scanned before the exact map
_find_route_regex_first(static_routes, regex_routes, req) ==
    LET r == FirstRegex(regex_routes, req.method, req.path)
    IN  IF ~IsNone(r) THEN r
        ELSE DictGet(static_routes, RouteKey(req.method, req.path))

\* HttpServer._find_route: None stands for (None, None)
_find_route(static_routes, regex_routes, req) ==
    LET mapping == DictGet(static_routes, RouteKey(req.method, req.path))
    IN  IF ~IsNone(mapping) THEN mapping
        ELSE FirstRegex(regex_routes, req.method, req.path)

(***************************************************************************)
(* Requests and responses (http_util.py).                                  *)
(***************************************************************************)

\* HttpRequest; stamp (a monotonic clock reading used only by the trace log) is left out
HttpRequest(method, path, query_params, headers, body) ==
    [method |-> method, path |-> path, query_params |-> query_params,
     version |-> "HTTP/1.1", headers |-> headers, body |-> body]

\* HttpResponse.  headers is [ref, h]: "none" (None), "own" (an HttpHeaders of the
\* response, h its _headers) or "default" (the server's _default_response_headers
\* object itself).
NoHeaders == [ref |-> "none", h |-> << >>]
OwnHeaders(h) == [ref |-> "own", h |-> h]
DefaultHeadersRef == [ref |-> "default", h |-> << >>]

HttpResponse(status_code, headers, body, file_path) ==
    [status_code |-> status_code, headers |-> headers, body |-> body, file_path |-> file_path]

\* http.HTTPStatus(code).phrase for the codes the model uses; None: ValueError
HTTPStatus(code) ==
    CASE code = 200 -> Some("OK")
      [] code = 204 -> Some("No Content")
      [] code = 400 -> Some("Bad Request")
      [] code = 404 -> Some("Not Found")
      [] code = 500 -> Some("Internal Server Error")
      [] OTHER -> None

Digit(d) == SubSeq("0123456789", d + 1, d + 1)

\* str(n) as the f-string of a header line renders an int
RECURSIVE IntStr(_)
IntStr(n) == IF n < 10 THEN Digit(n) ELSE IntStr(n \div 10) \o Digit(n % 10)

\* The file system as the server sees it: os.stat(path).st_size (None: it raises)
\* and the bytes open(path, 'rb') gives sendfile (None: open raises).  "." is a
\* directory: stat succeeds on it and open does not.
os_stat_size(path) ==
    CASE path = "LICENSE" -> Some(7)
      [] path = "." -> Some(4)
      [] OTHER -> None

open_rb(path) ==
    CASE path = "LICENSE" -> Some("Apache2")
      [] OTHER -> None

\* a Python value (an argument, a returned value) is [t, s, d]: t = "none", "json" (a
\* value decoded from JSON or built of dicts, lists and numbers; s is its JSON
\* text), "str" (s), "dict" (of str to str; d) or "object" (anything else, named s)
PyNone == [t |-> "none", s |-> "", d |-> << >>]
PyJson(text) == [t |-> "json", s |-> text, d |-> << >>]
PyStr(text) == [t |-> "str", s |-> text, d |-> << >>]
PyDict(d) == [t |-> "dict", s |-> "", d |-> d]
PyObject(name) == [t |-> "object", s |-> name, d |-> << >>]

\* json.loads on a request body: None (no body) raises TypeError, text that is not
\* JSON raises JSONDecodeError (None here); the model reads a JSON object {...}
json_loads(body) ==
    IF IsNone(body) THEN None
    ELSE IF Len(Get(body)) >= 2 /\ Char(Get(body), 1) = "{"
            /\ Char(Get(body), Len(Get(body))) = "}"
    THEN Some(PyJson(Get(body)))
    ELSE None

RECURSIVE DictJson(_)
DictJson(d) ==
    IF d = << >> THEN ""
    ELSE "\"" \o Head(d).k \o "\": \"" \o Head(d).l \o "\""
         \o (IF Len(d) > 1 THEN ", " ELSE "") \o DictJson(Tail(d))

\* json.dumps(value).encode('utf-8'); None: TypeError, the value is not serializable
json_dumps(value) ==
    CASE value.t = "none" -> Some("null")
      [] value.t = "json" -> Some(value.s)
      [] value.t = "str" -> Some("\"" \o value.s \o "\"")
      [] value.t = "dict" -> Some("{" \o DictJson(value.d) \o "}")
      [] OTHER -> None

\* dict(zip(keys, values))
RECURSIVE DictZipInto(_, _, _)
DictZipInto(d, keys, values) ==
    IF keys = << >> \/ values = << >> THEN d
    ELSE DictZipInto(DictPut(d, Head(keys), Head(values)), Tail(keys), Tail(values))

DictZip(keys, values) == DictZipInto(<< >>, keys, values)

\* what writer.write is given: one token per call
StatusLine(code, phrase) == [t |-> "status", k |-> IntStr(code), v |-> phrase]
HeaderLine(kv) == [t |-> "header", k |-> kv[1], v |-> kv[2]]
BlankLine == [t |-> "blank", k |-> "", v |-> ""]
Payload(bytes) == [t |-> "payload", k |-> "", v |-> bytes]

\* HttpServer.build_http_404_response / build_http_500_response
build_http_404_response == HttpResponse(404, NoHeaders, None, None)

build_http_500_response == HttpResponse(500, NoHeaders, None, None)

\* bool(response.headers) where defaults is the server's table
HeadersTruthy(headers, defaults) ==
    \/ headers.ref = "own" /\ HeadersLen(headers.h) > 0
    \/ headers.ref = "default" /\ HeadersLen(defaults) > 0

\* HttpServer._send_response, lines 228-231: the response with its headers merged
\* with the defaults, or made the server's default table itself.  A response comes
\* here with no headers or with headers of its own: every response is a new object.
_send_response_headers(resp, defaults) ==
    IF HeadersTruthy(resp.headers, defaults)
    THEN IF resp.headers.ref = "own"
         THEN [resp EXCEPT !.headers = OwnHeaders(merge(resp.headers.h, AsHeaders(defaults)))]
         ELSE resp
    ELSE [resp EXCEPT !.headers = DefaultHeadersRef]

BodyTruthy(resp) == ~IsNone(resp.body) /\ Len(Get(resp.body)) > 0

FileTruthy(resp) == ~IsNone(resp.file_path) /\ Len(Get(resp.file_path)) > 0

\* http_send_response, lines 149-153: content_length, None when os.stat raises
ContentLength(resp) ==
    IF BodyTruthy(resp) THEN Some(Len(Get(resp.body)))
    ELSE IF FileTruthy(resp) THEN os_stat_size(Get(resp.file_path))
    ELSE Some(0)

\* http_send_response, line 147: the HttpHeaders object that is written, which is
\* the server's own default table when the response refers to it and it is not empty
SharesDefaults(resp, defaults) ==
    resp.headers.ref = "default" /\ HeadersLen(defaults) > 0

HeadersObject(resp, defaults) ==
    IF resp.headers.ref = "own" /\ HeadersLen(resp.headers.h) > 0 THEN resp.headers.h
    ELSE IF SharesDefaults(resp, defaults) THEN defaults
    ELSE HttpHeaders

\* http_send_response, lines 154-165 and the await that follows: headers is the
\* header object after headers.set('content-length', content_length)
Written(resp, defaults, phrase, headers) ==
    [exc |-> FALSE,
     defaults |-> IF SharesDefaults(resp, defaults) THEN headers ELSE defaults,
     response |-> IF resp.headers.ref = "own"
                  THEN [resp EXCEPT !.headers = OwnHeaders(headers)] ELSE resp,
     out |-> << StatusLine(resp.status_code, phrase) >>
             \o [i \in 1 .. Len(items(headers)) |-> HeaderLine(items(headers)[i])]
             \o << BlankLine >>
             \o (IF BodyTruthy(resp) THEN << Payload(Get(resp.body)) >> ELSE << >>),
     pc |-> IF ~BodyTruthy(resp) /\ FileTruthy(resp) THEN "DrainFile" ELSE "Drain"]

\* (mutant of http_send_response: the status line is written with the number of
\* the status before HTTPStatus is asked for it)
http_send_response_late(resp, defaults, http_status, content_length) ==
    IF IsNone(http_status) \/ IsNone(content_length)
    THEN [exc |-> TRUE, defaults |-> defaults, response |-> resp,
          out |-> << StatusLine(resp.status_code, "") >>, pc |-> ""]
    ELSE Written(resp, defaults, Get(http_status),
                 set(HeadersObject(resp, defaults), "content-length",
                     IntStr(Get(content_length))))

\* http_send_response up to its first await.  Gives [exc, defaults, response, out,
\* pc]: whether it raised (HTTPStatus or os.stat, before anything is written), the
\* server's default table afterwards, the response object afterwards, the tokens
\* written, and the await it is suspended at.
http_send_response(resp, defaults, http_status, content_length) ==
    IF IsNone(http_status) \/ IsNone(content_length)
    THEN [exc |-> TRUE, defaults |-> defaults, response |-> resp, out |-> << >>, pc |-> ""]
    ELSE Written(resp, defaults, Get(http_status),
                 set(HeadersObject(resp, defaults), "content-length",
                     IntStr(Get(content_length))))

SendMerged(resp, defaults) ==
    http_send_response(resp, defaults, HTTPStatus(resp.status_code), ContentLength(resp))

\* HttpServer._send_response up to the first await
SendSync(resp, defaults) ==
    SendMerged(_send_response_headers(resp, defaults), defaults)

(***************************************************************************)
(* The application: handler objects and what their methods do.             *)
(***************************************************************************)
GET == << "GET" >>

\* demo.py, class MyHandler: its routable attributes in dir() order
MyHandler ==
    << [attr |-> "bar",
        routes |-> << uri_mapping("/bar", GET, << "self", "headers", "query_params" >>) >>],
       [attr |-> "foo",
        routes |-> << uri_mapping("/foo", << "GET", "POST" >>, << "self", "request" >>) >>],
       [attr |-> "test_async_sleep",
        routes |-> << uri_mapping("/async-sleep", GET, << "self" >>) >>],
       [attr |-> "test_custom_resp",
        routes |-> << uri_mapping("/test-custom-response", GET, << "self" >>) >>],
       [attr |-> "test_delete",
        routes |-> << uri_mapping("/test-delete", << "DELETE" >>, << "self", "body" >>) >>],
       [attr |-> "test_due",
        routes |-> << uri_variable_mapping("/aaa/{bbb}/ccc/{ddd}", GET,
                                           << "self", "uri_variables" >>) >>],
       [attr |-> "test_exception",
        routes |-> << uri_mapping("/test-exception", GET, << "self" >>) >>],
       [attr |-> "test_file",
        routes |-> << uri_pattern_mapping("/send-file", GET, << "self" >>) >>],
       [attr |-> "test_pattern",
        routes |-> << uri_pattern_mapping("/any/(.*)", GET, << "self", "request" >>) >>],
       [attr |-> "test_post",
        routes |-> << uri_mapping("/test-post", << "POST" >>, << "self", "body" >>) >>],
       [attr |-> "test_variable",
        routes |-> << uri_variable_mapping("/aaa/{bbb}", GET,
                                           << "self", "uri_variables" >>) >>] >>

\* A second application object, whose methods fail in the ways a handler can.
FaultyHandler ==
    << [attr |-> "bad_status",
        routes |-> << uri_mapping("/bad-status", GET, << "self" >>) >>],
       [attr |-> "boom",
        routes |-> << uri_mapping("/boom", GET, << "self" >>) >>],
       [attr |-> "dir_file",
        routes |-> << uri_mapping("/dir", GET, << "self" >>) >>],
       [attr |-> "not_json",
        routes |-> << uri_mapping("/not-json", GET, << "self" >>) >>],
       [attr |-> "own_length",
        routes |-> << uri_mapping("/own-length", GET, << "self" >>) >>] >>

\* Handler objects whose routes overlap, for the route table
ExactHandler ==
    << [attr |-> "exact_a", routes |-> << uri_mapping("/a", GET, << "self" >>) >>] >>

ExactHandler2 ==
    << [attr |-> "exact_a2",
        routes |-> << uri_mapping("/a", << "GET", "POST" >>, << "self" >>) >>] >>

PrefixHandler ==
    << [attr |-> "prefix_a",
        routes |-> << uri_pattern_mapping("/a", << "GET", "POST" >>, << "self" >>) >>] >>

VariableHandler ==
    << [attr |-> "var_post",
        routes |-> << uri_variable_mapping("/{v}", << "POST" >>, << "self" >>) >>],
       [attr |-> "var_seg",
        routes |-> << uri_variable_mapping("/{v}", << "GET", "POST" >>, << "self" >>) >>] >>

\* A handler object with a route of three variables
TripleHandler ==
    << [attr |-> "triple",
        routes |-> << uri_variable_mapping("/t/{a}/{b}/{c}", GET,
                                           << "self", "request", "uri_variables" >>) >>] >>

AppHandlers == { "MyHandler", "FaultyHandler" }

BindHandlers == { "MyHandler", "TripleHandler" }

RouteHandlers == { "ExactHandler", "ExactHandler2", "PrefixHandler", "VariableHandler" }

\* the handler object of a name
HandlerObject(name) ==
    CASE name = "MyHandler" -> MyHandler
      [] name = "FaultyHandler" -> FaultyHandler
      [] name = "ExactHandler" -> ExactHandler
      [] name = "ExactHandler2" -> ExactHandler2
      [] name = "PrefixHandler" -> PrefixHandler
      [] name = "TripleHandler" -> TripleHandler
      [] OTHER -> VariableHandler

\* async def
is_coroutine_function(method) ==
    method \in { "test_async_sleep", "test_due", "test_variable" }

\* _convert_params: [ok, args]; ok is FALSE when it raises
RECURSIVE BindFrom(_, _, _)
BindFrom(req, route, names) ==
    IF names = << >> THEN [ok |-> TRUE, args |-> << >>]
    ELSE LET param_name == Head(names)
             rest == BindFrom(req, route, Tail(names))
             decoded == json_loads(req.body)
             all == re_findall(route.path.re, req.path)
             one == CASE param_name = "request" -> Some(PyObject("request"))
                      [] param_name = "headers" -> Some(PyObject("headers"))
                      [] param_name = "raw_body" ->
                             Some(IF IsNone(req.body) THEN PyNone ELSE PyStr(Get(req.body)))
                      [] param_name = "body" ->
                             IF IsNone(decoded) THEN None ELSE Some(PyJson(Get(decoded).s))
                      [] param_name = "uri_variables" ->
                             IF IsNone(route.uri_variables) THEN None
                             ELSE IF Len(Get(route.uri_variables)) = 1
                             THEN Some(PyDict(DictZip(Get(route.uri_variables),
                                                      [i \in 1 .. Len(all) |-> all[i][1]])))
                             ELSE IF all = << >> THEN None
                             ELSE Some(PyDict(DictZip(Get(route.uri_variables), all[1])))
                      [] OTHER -> Some(PyNone)
         IN  IF IsNone(one) \/ ~rest.ok THEN [ok |-> FALSE, args |-> << >>]
             ELSE [ok |-> TRUE, args |-> << Get(one) >> \o rest.args]

_convert_params(req, route, method) ==
    BindFrom(req, route, Tail(route.call_args))      \* bound methods: 'self' is skipped

\* What a handler call gives: [kind, response, value]; kind is "response", "none",
\* "value", or "raise" (an Exception; "raise_response" for the demo's
\* HttpResponseException, which carries the response of the 'response' field)
Returns(resp) == [kind |-> "response", response |-> resp, value |-> PyNone]
ReturnsNone == [kind |-> "none", response |-> build_http_500_response, value |-> PyNone]
ReturnsValue(v) == [kind |-> "value", response |-> build_http_500_response, value |-> v]
Raises == [kind |-> "raise", response |-> build_http_500_response, value |-> PyNone]
RaisesResponse(resp) == [kind |-> "raise_response", response |-> resp, value |-> PyNone]

\* dict(headers.items()): each name with the last of its values
LastValues(h) == [i \in 1 .. Len(h) |-> [k |-> h[i].k, l |-> h[i].l[Len(h[i].l)]]]

\* method(*args), awaited when it is a coroutine
Call(method, args, req) ==
    CASE method = "bar" ->
             ReturnsValue(PyJson("{\"a\": 10, \"h\": {" \o DictJson(LastValues(req.headers))
                                 \o "}, \"q\": " \o Get(json_dumps(args[2])) \o "}"))
      [] method = "test_custom_resp" ->
             Returns(HttpResponse(200, OwnHeaders(set(HttpHeaders, "X-Foo", "custom stuff")),
                                  Some("test-body"), None))
      [] method = "test_delete" ->
             ReturnsValue(PyJson("{\"x\": 1, \"y\": " \o args[1].s \o "}"))
      [] method \in { "test_due", "test_variable" } -> ReturnsValue(args[1])
      [] method = "test_exception" ->
             RaisesResponse(HttpResponse(400,
                                OwnHeaders(set(HttpHeaders, "X-Foo", "custom stuff")),
                                Some("custom-body"), None))
      [] method = "test_file" -> Returns(HttpResponse(200, NoHeaders, None, Some("LICENSE")))
      [] method = "test_pattern" -> ReturnsValue(PyStr(req.path))
      [] method = "test_post" -> ReturnsValue(args[1])
      [] method = "bad_status" -> Returns(HttpResponse(999, NoHeaders, None, None))
      [] method = "boom" -> Raises
      [] method = "dir_file" -> Returns(HttpResponse(200, NoHeaders, None, Some(".")))
      [] method = "not_json" -> ReturnsValue(PyObject("object"))
      [] method = "own_length" ->
             Returns(HttpResponse(200, OwnHeaders(set(HttpHeaders, "Content-Length", "99")),
                                  Some("ok"), None))
      [] OTHER -> ReturnsNone

(***************************************************************************)
(* The inputs of the model.                                                *)
(***************************************************************************)
Req(method, path, body) == HttpRequest(method, path, << >>, HttpHeaders, body)

\* the requests clients send; the second is what http_parser makes of GET /bar?x=1
Requests ==
    { Req("GET", "/foo", None),
      HttpRequest("GET", "/bar", << [k |-> "x", l |-> << "1" >>] >>, HttpHeaders, None),
      Req("POST", "/test-post", Some("{\"foo\": 1}")),
      Req("POST", "/test-post", Some("oops")),
      Req("GET", "/test-custom-response", None),
      Req("GET", "/test-exception", None),
      Req("GET", "/send-file", None),
      Req("GET", "/aaa/42", None),
      Req("GET", "/boom", None),
      Req("GET", "/dir", None),
      Req("GET", "/bad-status", None),
      Req("GET", "/nope", None) }

\* the requests the client of connection c sends: the first two clients send any
\* request of Requests, a further client the GET /foo that demo.py answers
OtherRequests == { Req("GET", "/foo", None) }

RequestsOf(c) == IF c <= 2 THEN Requests ELSE OtherRequests

\* the requests looked up in the route table on its own
RouteRequests ==
    { Req(m, p, None) : m \in { "GET", "POST" }, p \in { "/a", "/ab", "/a/b", "/" } }

\* the requests routed and bound on their own
BindPaths ==
    { "/aaa/" \o a \o b : a \in { "", "1", "42" },
                          b \in { "", "/", "/ccc/2", "/ccc/", "/ccc/1/2", "/ccc" } }
    \cup { "/aaa", "/xaaa/42", "/t/1/2/3", "/t//2/", "/t/1/2", "/t/1/2/3/4", "/bar" }

BindRequests == { Req(m, p, None) : m \in { "GET" }, p \in BindPaths }

\* what add_default_response_headers is given, as demo.py does: a plain dict
DefaultHeaderInputs == { "dict" }

DefaultHeaderInput(name) ==
    [isHeaders |-> FALSE,
     d |-> << [k |-> "x-foo", l |-> [islist |-> FALSE, v |-> << "default" >>]],
              [k |-> "Content-Length", l |-> [islist |-> FALSE, v |-> << "99" >>]] >>]

(***************************************************************************)
(* What peers send.  A message is [method, path, query, headers, body]:    *)
(* headers is the sequence of its (name, value) lines.  A script is what a *)
(* peer has to deliver, cut into the chunks it arrives in.                 *)
(***************************************************************************)
CRLF == "\r\n"

Message(method, path, query, headers, body) ==
    [method |-> method, path |-> path, query |-> query, headers |-> headers, body |-> body]

RECURSIVE HeaderText(_)
HeaderText(hs) ==
    IF hs = << >> THEN ""
    ELSE Head(hs)[1] \o ": " \o Head(hs)[2] \o CRLF \o HeaderText(Tail(hs))

\* the bytes of a message
MessageText(m) ==
    m.method \o " " \o m.path \o (IF m.query = "" THEN "" ELSE "?" \o m.query)
        \o " HTTP/1.1" \o CRLF \o HeaderText(m.headers) \o CRLF \o m.body

RECURSIVE MessagesText(_)
MessagesText(ms) == IF ms = << >> THEN "" ELSE MessageText(Head(ms)) \o MessagesText(Tail(ms))

\* text in chunks that end at the positions of cuts, and the rest
RECURSIVE Cut(_, _, _)
Cut(text, cuts, from) ==
    IF cuts = << >> THEN IF from > Len(text) THEN << >> ELSE << SubSeq(text, from, Len(text)) >>
    ELSE << SubSeq(text, from, Head(cuts)) >> \o Cut(text, Tail(cuts), Head(cuts) + 1)

\* the well-formed messages of a script, in the order sent
ScriptMessages(name) ==
    CASE name = "get" -> << Message("GET", "/foo", "", << >>, "") >>
      [] name = "post" ->
             << Message("POST", "/test-post", "",
                        << << "Content-Length", "10" >>, << "X-Foo", "10" >> >>,
                        "{\"foo\": 1}") >>
      [] name = "query" ->
             << Message("GET", "//bar", "x=1&y=&x=2+3",
                        << << "X-Foo", "a" >>, << "Accept", "*" >>, << "x-foo", "b" >> >>, "") >>
      [] name = "two" ->
             << Message("GET", "/aaa/42", "", << >>, ""),
                Message("POST", "/foo", "", << << "Content-Length", "0" >> >>, "") >>
      [] OTHER -> << >>

\* the bytes of a script that is not a sequence of well-formed messages
ScriptText(name) ==
    CASE name = "short" -> "GET /foo" \o CRLF \o CRLF
      [] name = "nocolon" -> "GET /foo HTTP/1.1" \o CRLF \o "X-Foo" \o CRLF \o CRLF
      [] name = "badlen" -> "POST /test-post HTTP/1.1" \o CRLF \o "Content-Length: x" \o CRLF \o CRLF
      [] OTHER -> MessagesText(ScriptMessages(name))

\* where the bytes of a script are cut
ScriptCuts(name) ==
    CASE name = "post" -> << 9, 64 >>
      [] name = "query" -> << 37 >>
      [] OTHER -> << >>

Chunks(name) == Cut(ScriptText(name), ScriptCuts(name), 1)

Scripts == { "get", "post", "query", "two", "short", "nocolon", "badlen", "empty" }

\* the scripts of the peer of the second connection
OtherScripts == { "get" }

\* the scripts of the peers of the connections after the second: they send nothing
IdleScripts == { "empty" }

(***************************************************************************)
(* http_parser (http_util.py).  parsing is [stage, method, path,           *)
(* query_params, headers, content_length]: stage names the read the        *)
(* coroutine is at, "line" (line 113), "headers" (line 125) or "body"      *)
(* (line 135); the other fields are its locals.                            *)
(***************************************************************************)
Parsing(stage, method, path, query_params, headers, content_length) ==
    [stage |-> stage, method |-> method, path |-> path, query_params |-> query_params,
     headers |-> headers, content_length |-> content_length]

\* http_parser is called and is at its first read
NotParsing == Parsing("line", "", "", << >>, HttpHeaders, 0)

\* str.find(sub, from): the first index >= from where sub begins, 0 when there is none
Find(s, sub, from) ==
    IF \E i \in from .. Len(s) : StartsWith(s, i, sub)
    THEN CHOOSE i \in from .. Len(s) :
             StartsWith(s, i, sub) /\ \A j \in from .. i - 1 : ~StartsWith(s, j, sub)
    ELSE 0

IsSpace(ch) == ch \in { " ", "\t", "\r", "\n" }

\* str.lstrip(chars) and str.strip()
RECURSIVE lstrip(_, _)
lstrip(s, chars) ==
    IF s # "" /\ Char(s, 1) \in chars THEN lstrip(SubSeq(s, 2, Len(s)), chars) ELSE s

RECURSIVE rstrip(_, _)
rstrip(s, chars) ==
    IF s # "" /\ Char(s, Len(s)) \in chars THEN rstrip(SubSeq(s, 1, Len(s) - 1), chars) ELSE s

strip(s) == rstrip(lstrip(s, { " ", "\t", "\r", "\n" }), { " ", "\t", "\r", "\n" })

\* the length of the run of non-space characters s begins with
RECURSIVE WordLen(_)
WordLen(s) ==
    IF s = "" \/ IsSpace(Char(s, 1)) THEN 0 ELSE 1 + WordLen(SubSeq(s, 2, Len(s)))

\* str.split(): the runs of non-space characters
RECURSIVE split(_)
split(s) ==
    IF s = "" THEN << >>
    ELSE IF IsSpace(Char(s, 1)) THEN split(SubSeq(s, 2, Len(s)))
    ELSE << SubSeq(s, 1, WordLen(s)) >> \o split(SubSeq(s, WordLen(s) + 1, Len(s)))

\* str.split(sep, 1): one part, or the parts before and after the first sep
split_once(s, sep) ==
    IF Find(s, sep, 1) = 0 THEN << s >>
    ELSE << SubSeq(s, 1, Find(s, sep, 1) - 1),
            SubSeq(s, Find(s, sep, 1) + Len(sep), Len(s)) >>

\* str.split(sep)
RECURSIVE split_all(_, _)
split_all(s, sep) ==
    IF Find(s, sep, 1) = 0 THEN << s >>
    ELSE << SubSeq(s, 1, Find(s, sep, 1) - 1) >>
         \o split_all(SubSeq(s, Find(s, sep, 1) + Len(sep), Len(s)), sep)

IsDigits(s) == s # "" /\ \A i \in 1 .. Len(s) : Char(s, i) \in { "0", "1", "2", "3", "4", "5", "6", "7", "8", "9" }

DigitValue(ch) == CHOOSE d \in 0 .. 9 : Digit(d) = ch

RECURSIVE DigitsValue(_)
DigitsValue(s) ==
    IF s = "" THEN 0
    ELSE 10 * DigitsValue(SubSeq(s, 1, Len(s) - 1)) + DigitValue(Char(s, Len(s)))

\* int(text): None when it raises ValueError; surrounding space and a sign are accepted
int(text) ==
    IF IsDigits(strip(text)) THEN Some(DigitsValue(strip(text)))
    ELSE IF Len(strip(text)) > 1 /\ IsDigits(SubSeq(strip(text), 2, Len(strip(text))))
            /\ Char(strip(text), 1) \in { "+", "-" }
    THEN Some((IF Char(strip(text), 1) = "-" THEN -1 ELSE 1)
              * DigitsValue(SubSeq(strip(text), 2, Len(strip(text)))))
    ELSE None

\* urllib.parse.unquote_plus for the escapes the model uses: '+' and %20 are a space
RECURSIVE unquote(_)
unquote(s) ==
    IF s = "" THEN ""
    ELSE IF Char(s, 1) = "+" THEN " " \o unquote(SubSeq(s, 2, Len(s)))
    ELSE IF StartsWith(s, 1, "%20") THEN " " \o unquote(SubSeq(s, 4, Len(s)))
    ELSE Char(s, 1) \o unquote(SubSeq(s, 2, Len(s)))

\* urllib.parse.parse_qs: a dict of name to the list of its values; a field
\* without '=' and a field with an empty value are dropped
RECURSIVE parse_qs_fields(_, _)
parse_qs_fields(d, fields) ==
    IF fields = << >> THEN d
    ELSE IF Len(split_once(Head(fields), "=")) = 2 /\ split_once(Head(fields), "=")[2] # ""
    THEN parse_qs_fields(add_value(d, unquote(split_once(Head(fields), "=")[1]),
                                   unquote(split_once(Head(fields), "=")[2])),
                         Tail(fields))
    ELSE parse_qs_fields(d, Tail(fields))

parse_qs(qs) == parse_qs_fields(<< >>, split_all(qs, "&"))

\* _clean_path
_clean_path(path) ==
    IF StartsWith(path, 1, "//") THEN "/" \o lstrip(path, { "/" }) ELSE path

\* _parse_path: (path, query_params)
_parse_path(path) ==
    IF Find(path, "?", 1) = 0 THEN << path, << >> >>
    ELSE << SubSeq(path, 1, Find(path, "?", 1) - 1),
            parse_qs(SubSeq(path, Find(path, "?", 1) + 1, Len(path))) >>

\* StreamReader.readuntil(b'\r\n') can return from buf; what it returns and leaves
HasLine(buf) == Find(buf, CRLF, 1) > 0

readuntil(buf) ==
    [line |-> SubSeq(buf, 1, Find(buf, CRLF, 1) + 1),
     rest |-> SubSeq(buf, Find(buf, CRLF, 1) + 2, Len(buf))]

\* What a resumed read makes of http_parser: [kind, parsing, buffer, request, exc].
\* kind is "more" (it is at its next read), "request" (it returns request), "none"
\* (it returns None) or "raise" (it raises exc).
ParserOutcome(kind, p, buf, req, exc) ==
    [kind |-> kind, parsing |-> p, buffer |-> buf, request |-> req, exc |-> exc]

\* readuntil or readexactly at end of stream: IncompleteReadError, the buffer is emptied
IncompleteRead(p) == ParserOutcome("raise", p, "", None, "IncompleteReadError")

\* lines 117-123
parse_request_line(words, rest) ==
    IF Len(words) < 3 THEN ParserOutcome("raise", NotParsing, rest, None, "IndexError")
    ELSE ParserOutcome("more",
                       Parsing("headers", words[1], _parse_path(_clean_path(words[2]))[1],
                               _parse_path(_clean_path(words[2]))[2], HttpHeaders, 0),
                       rest, None, "")

\* lines 113-123: the read of the request line returns or raises
request_line(p, buf) ==
    IF ~HasLine(buf) THEN IncompleteRead(p)
    ELSE IF readuntil(buf).line = "" THEN ParserOutcome("none", p, readuntil(buf).rest, None, "")
    ELSE parse_request_line(split(readuntil(buf).line), readuntil(buf).rest)

\* HttpHeaders.get(key, default, int): [ok, v]; ok is FALSE when int raises
get_int(h, key, default) ==
    IF IsNone(get_list(h, key)) \/ Get(get_list(h, key)) = << >>
    THEN [ok |-> TRUE, v |-> default]
    ELSE IF IsNone(int(Get(get_list(h, key))[1])) THEN [ok |-> FALSE, v |-> default]
    ELSE [ok |-> TRUE, v |-> Get(int(Get(get_list(h, key))[1]))]

\* lines 132-142 up to the read of the body
end_of_headers(p, rest, content_length) ==
    IF ~content_length.ok THEN ParserOutcome("raise", p, rest, None, "ValueError")
    ELSE IF content_length.v > 0
    THEN ParserOutcome("more", [p EXCEPT !.stage = "body", !.content_length = content_length.v],
                       rest, None, "")
    ELSE ParserOutcome("request", p, rest,
                       Some(HttpRequest(p.method, p.path, p.query_params, p.headers, None)), "")

\* lines 129-130
parse_header_line(p, parts, rest) ==
    IF Len(parts) < 2 THEN ParserOutcome("raise", p, rest, None, "ValueError")
    ELSE ParserOutcome("more",
                       [p EXCEPT !.headers = add(@, strip(parts[1]), strip(parts[2]))],
                       rest, None, "")

\* lines 125-137: the read of a header line returns or raises
header_line(p, buf) ==
    IF ~HasLine(buf) THEN IncompleteRead(p)
    ELSE IF readuntil(buf).line = "" \/ readuntil(buf).line = CRLF
    THEN end_of_headers(p, readuntil(buf).rest, get_int(p.headers, "content-length", -1))
    ELSE parse_header_line(p, split_once(readuntil(buf).line, ": "), readuntil(buf).rest)

\* lines 135-142: readexactly(content_length) returns or raises
body_read(p, buf) ==
    IF Len(buf) < p.content_length THEN IncompleteRead(p)
    ELSE ParserOutcome("request", p, SubSeq(buf, p.content_length + 1, Len(buf)),
                       Some(HttpRequest(p.method, p.path, p.query_params, p.headers,
                                        Some(SubSeq(buf, 1, p.content_length)))), "")

\* the read http_parser is suspended in can return from buf
CanReturn(p, buf) ==
    IF p.stage = "body" THEN Len(buf) >= p.content_length ELSE HasLine(buf)

(***************************************************************************)
(* HttpServer: construction, configuration, start.                         *)
(***************************************************************************)
\* no peer has delivered anything: the StreamReaders are new
ReadersIdle ==
    /\ peer = [c \in Conns |-> ""]
    /\ incoming = [c \in Conns |-> << >>]
    /\ buffer = [c \in Conns |-> ""]
    /\ eof = [c \in Conns |-> FALSE]
    /\ stalled = [c \in Conns |-> FALSE]
    /\ parsing = [c \in Conns |-> NotParsing]
    /\ parser_exit = [c \in Conns |-> ""]

\* no call of start or serve_forever has begun
CallsIdle ==
    /\ call_pc = [k \in Calls |-> "idle"]
    /\ created = << >>

Init ==
    /\ _server = None
    /\ _default_response_headers = HttpHeaders
    /\ _static_routes = << >>
    /\ _regex_routes = << >>
    /\ registered = << >>
    /\ defaults_added = << >>
    /\ lookup = None
    /\ pc = [c \in Conns |-> "NotAccepted"]
    /\ request = [c \in Conns |-> None]
    /\ found = [c \in Conns |-> None]
    /\ response = [c \in Conns |-> None]
    /\ ctx = [c \in Conns |-> ""]
    /\ wire = [c \in Conns |-> << >>]
    /\ handler_calls = [c \in Conns |-> << >>]
    /\ io_failed = [c \in Conns |-> FALSE]
    /\ n_read = [c \in Conns |-> 0]
    /\ n_sent = [c \in Conns |-> 0]
    /\ ReadersIdle
    /\ CallsIdle

\* The application configures the server before it starts it, and gives it each
\* handler object and each table of default headers once (demo.py, main).
Configuring == IsNone(_server)

\* HttpServer.add_handler
add_handler(name) ==
    /\ Configuring
    /\ name \notin SeqToSet(registered)
    /\ \E tables \in { RegisterAll([static |-> _static_routes, regex |-> _regex_routes],
                                   _scan_handler_for_uri_routes(HandlerObject(name))) } :
           /\ _static_routes' = tables.static
           /\ _regex_routes' = tables.regex
    /\ registered' = Append(registered, name)
    /\ lookup' = None                  \* a lookup made earlier was made in an earlier table
    /\ UNCHANGED << _server, _default_response_headers, defaults_added, connVars,
                    readerVars, lifeVars >>

\* HttpServer.add_default_response_headers
add_default_response_headers(name) ==
    /\ Configuring
    /\ name \notin SeqToSet(defaults_added)
    /\ _default_response_headers' =
           merge(_default_response_headers, DefaultHeaderInput(name))
    /\ defaults_added' = Append(defaults_added, name)
    /\ UNCHANGED << _server, _static_routes, _regex_routes, registered, lookup, connVars,
                    readerVars, lifeVars >>

\* HttpServer.start on a server that is not started
start ==
    /\ IsNone(_server)
    /\ _server' = Some("listener")
    /\ UNCHANGED << _default_response_headers, _static_routes, _regex_routes, registered,
                    defaults_added, lookup, connVars, readerVars, lifeVars >>

(***************************************************************************)
(* The calls of start and serve_forever, each a coroutine of its own.      *)
(* call_pc of a call is idle (not made yet), start_creating (line 163,     *)
(* await asyncio.start_server), start_done, start_failed (start_server     *)
(* raised), start_raised (line 161), serving (line 170) or serve_raised    *)
(* (line 167).                                                             *)
(***************************************************************************)
\* line 160: self._server is not None   (mutant: the check is left out)
already_started_unchecked(server) == FALSE

already_started(server) == ~IsNone(server)

\* the listener asyncio.start_server creates next
NewListener ==
    IF created = << >> THEN "listener" ELSE "listener" \o IntStr(Len(created) + 1)

\* HttpServer.start is called: lines 160-163 up to the await
start_called(k) ==
    /\ call_pc[k] = "idle"
    /\ call_pc' = [call_pc EXCEPT ![k] = IF already_started(_server) THEN "start_raised"
                                         ELSE "start_creating"]
    /\ UNCHANGED << serverVars, lookup, connVars, readerVars, created >>

\* line 163: asyncio.start_server returns the listener it created (ok) or raises
\* OSError; the listener is assigned to self._server
start_server_returns(k, ok) ==
    /\ call_pc[k] = "start_creating"
    /\ call_pc' = [call_pc EXCEPT ![k] = IF ok THEN "start_done" ELSE "start_failed"]
    /\ created' = IF ok THEN Append(created, NewListener) ELSE created
    /\ _server' = IF ok THEN Some(NewListener) ELSE _server
    /\ UNCHANGED << _default_response_headers, _static_routes, _regex_routes, registered,
                    defaults_added, lookup, connVars, readerVars >>

\* HttpServer.serve_forever is called: lines 166-170 up to the await
serve_forever(k) ==
    /\ call_pc[k] = "idle"
    /\ call_pc' = [call_pc EXCEPT ![k] = IF IsNone(_server) THEN "serve_raised"
                                         ELSE "serving"]
    /\ UNCHANGED << serverVars, lookup, connVars, readerVars, created >>

\* a call of _find_route on its own
Lookup(req) ==
    /\ lookup' = Some([request |-> req,
                       result |-> _find_route(_static_routes, _regex_routes, req)])
    /\ UNCHANGED << serverVars, connVars, readerVars, lifeVars >>

\* a call of _find_route on its own and, for the route found, of _convert_params
\* (lines 181 and 207)
Bind(req) ==
    /\ \E m \in { _find_route(_static_routes, _regex_routes, req) } :
           lookup' = Some([request |-> req, result |-> m,
                           bound |-> IF IsNone(m) THEN None
                                     ELSE Some(_convert_params(req, Get(m).route,
                                                               Get(m).method))])
    /\ UNCHANGED << serverVars, connVars, readerVars, lifeVars >>

(***************************************************************************)
(* The connection loop, HttpServer._handle_client.  One action runs the    *)
(* coroutine from one await to the next; pc names the await it is at:      *)
(*   AwaitingRequest  line 178, await http_parser                          *)
(*   AwaitingHandler  line 210, await response (a coroutine handler)       *)
(*   DrainFile        http_util.py line 166, await writer.drain()          *)
(*   SendFile         http_util.py line 168, await sendfile                *)
(*   Drain            http_util.py line 169, await writer.drain()          *)
(*   Closed           line 197, writer.close() done                        *)
(* ctx names the _send_response call that is running: "try" (line 219),    *)
(* "except" (line 225) or "miss" (line 190).  What a step leaves is an     *)
(* effect [pc, ctx, response, wire, defaults].  request, found, response,  *)
(* ctx, wire and handler_calls describe the request being served: they are *)
(* empty while the loop waits for a request and after it has ended.        *)
(***************************************************************************)
Effect(p, cx, resp, w, defaults) ==
    [pc |-> p, ctx |-> cx, response |-> resp, wire |-> w, defaults |-> defaults]

\* _handle_client, lines 192-197: an exception leaves the loop, the writer is closed
CloseClient(resp, w, defaults) == Effect("Closed", "", None, << >>, defaults)

Sent(r, cx, w) == Effect(r.pc, cx, Some(r.response), w \o r.out, r.defaults)

\* _process_request, lines 221-225: the except clause builds and sends the 500
\* (mutant: it lets the exception through to _handle_client)
Fallback500Reraise(w, defaults) == CloseClient(None, w, defaults)

Fallback500(w, defaults) ==
    Sent(SendSync(build_http_500_response, defaults), "except", w)

\* an exception raised under the _send_response call cx, or in the try block
Raised(cx, resp, w, defaults) ==
    IF cx = "try" THEN Fallback500(w, defaults) ELSE CloseClient(resp, w, defaults)

SentOrRaised(r, cx, w) ==
    IF r.exc THEN Raised(cx, Some(r.response), w \o r.out, r.defaults)
    ELSE Sent(r, cx, w)

\* await self._send_response(writer, request, response), up to its first await
SendIn(resp, cx, w, defaults) == SentOrRaised(SendSync(resp, defaults), cx, w)

\* _process_request, lines 212-218: the response a returned value is made into;
\* None when json.dumps raises
Normalize(outcome, body) ==
    CASE outcome.kind = "response" -> Some(outcome.response)
      [] outcome.kind = "none" -> Some(HttpResponse(204, NoHeaders, None, None))
      [] outcome.kind = "value" /\ ~IsNone(body) ->
             Some(HttpResponse(200, NoHeaders, body, None))
      [] OTHER -> None

SendOrRaise(resp, w, defaults) ==
    IF IsNone(resp) THEN Raised("try", None, w, defaults)
    ELSE SendIn(Get(resp), "try", w, defaults)

\* _process_request, lines 208-225, from the handler's outcome on
AfterCall(outcome, w, defaults) ==
    IF outcome.kind \in { "raise", "raise_response" } THEN Raised("try", None, w, defaults)
    ELSE SendOrRaise(Normalize(outcome, json_dumps(outcome.value)), w, defaults)

\* (mutant: the 404 of a miss is a 500)
build_miss_500 == build_http_500_response

\* the response of _handle_client's else branch, line 189
MissResponse == build_http_404_response

\* line 178: the coroutine is suspended in http_parser   (mutant: also while the
\* previous response is still being flushed)
ReadingEarly(c) == pc[c] \in { "AwaitingRequest", "Drain" }

Reading(c) == pc[c] = "AwaitingRequest"

Apply(c, eff) ==
    /\ pc' = [pc EXCEPT ![c] = eff.pc]
    /\ ctx' = [ctx EXCEPT ![c] = eff.ctx]
    /\ response' = [response EXCEPT ![c] = eff.response]
    /\ wire' = [wire EXCEPT ![c] = eff.wire]
    /\ _default_response_headers' = eff.defaults

\* a step of the request being served: its locals go when the loop is done with it
ApplyIn(c, eff) ==
    /\ Apply(c, eff)
    /\ request' = [request EXCEPT
                       ![c] = IF eff.pc \in { "AwaitingRequest", "Closed" } THEN None ELSE @]
    /\ found' = [found EXCEPT
                     ![c] = IF eff.pc \in { "AwaitingRequest", "Closed" } THEN None ELSE @]
    /\ handler_calls' = [handler_calls EXCEPT
                             ![c] = IF eff.pc \in { "AwaitingRequest", "Closed" }
                                    THEN << >> ELSE @]

frozenServer == << _server, _static_routes, _regex_routes, registered, defaults_added,
                   lookup >>

TotalRead == SumLen([c \in Conns |-> [i \in 1 .. n_read[c] |-> i]])

\* asyncio.start_server calls _handle_client for a connection it accepted;
\* connections are numbered in the order they are accepted
Accept(c) ==
    /\ ~IsNone(_server)
    /\ pc[c] = "NotAccepted"
    /\ \A b \in Conns : b < c => pc[b] # "NotAccepted"
    /\ pc' = [pc EXCEPT ![c] = "AwaitingRequest"]
    /\ UNCHANGED << serverVars, lookup, request, found, response, ctx, wire,
                    handler_calls, io_failed, n_read, n_sent, readerVars, lifeVars >>

\* _process_request from line 207 to its first await
ProcessBound(bound, method, req, defaults) ==
    IF ~bound.ok THEN Raised("try", None, << >>, defaults)
    ELSE IF is_coroutine_function(method)
    THEN Effect("AwaitingHandler", "try", None, << >>, defaults)
    ELSE AfterCall(Call(method, bound.args, req), << >>, defaults)

\* _handle_client, lines 183-190, to the first await
Serve(mapping, req, defaults) ==
    IF IsNone(mapping) THEN SendIn(MissResponse, "miss", << >>, defaults)
    ELSE ProcessBound(_convert_params(req, Get(mapping).route, Get(mapping).method),
                      Get(mapping).method, req, defaults)

Invoked(mapping, req) ==
    IF ~IsNone(mapping)
       /\ _convert_params(req, Get(mapping).route, Get(mapping).method).ok
    THEN << Get(mapping).method >> ELSE << >>

\* lines 179-190 and _process_request up to the first await, for the request req
Dispatch(c, req) ==
    /\ \E mapping \in { _find_route(_static_routes, _regex_routes, req) } :
           /\ \E eff \in { Serve(mapping, req, _default_response_headers) } : Apply(c, eff)
           /\ found' = [found EXCEPT ![c] = mapping]
           /\ handler_calls' = [handler_calls EXCEPT ![c] = Invoked(mapping, req)]
    /\ request' = [request EXCEPT ![c] = Some(req)]
    /\ n_read' = [n_read EXCEPT ![c] = @ + 1]

\* http_parser returns req; lines 181-190 and _process_request up to the first await
HandleRequest(c, req) ==
    /\ Reading(c)
    /\ req \in RequestsOf(c)
    /\ TotalRead < MaxRequests
    /\ Dispatch(c, req)
    /\ UNCHANGED << frozenServer, io_failed, n_sent, readerVars, lifeVars >>

(***************************************************************************)
(* The connection loop reading from its peer.  The coroutine is suspended  *)
(* in one of the reads of http_parser (the stage of parsing) while pc is   *)
(* AwaitingRequest; an action resumes it when the read can return or the   *)
(* stream has ended, and runs it to its next await.                        *)
(***************************************************************************)
\* the read c is suspended in cannot return and the stream has not ended
ReadPending(c) ==
    /\ pc[c] = "AwaitingRequest"
    /\ ~eof[c]
    /\ ~CanReturn(parsing[c], buffer[c])

Connected(c) == pc[c] \notin { "NotAccepted", "Closed" }

\* the transport of the peer of c calls StreamReader.feed_data with its next chunk
feed_data(c) ==
    /\ Connected(c)
    /\ ~eof[c] /\ ~stalled[c]
    /\ incoming[c] # << >>
    /\ buffer' = [buffer EXCEPT ![c] = @ \o Head(incoming[c])]
    /\ incoming' = [incoming EXCEPT ![c] = Tail(@)]
    /\ UNCHANGED << serverVars, lookup, connVars, peer, eof, stalled, parsing, parser_exit,
                    lifeVars >>

\* the peer of c closes its side: StreamReader.feed_eof
feed_eof(c) ==
    /\ Connected(c)
    /\ ~eof[c] /\ ~stalled[c]
    /\ eof' = [eof EXCEPT ![c] = TRUE]
    /\ incoming' = [incoming EXCEPT ![c] = << >>]
    /\ UNCHANGED << serverVars, lookup, connVars, peer, buffer, stalled, parsing,
                    parser_exit, lifeVars >>

\* the peer of c delivers nothing more to the read c is suspended in, and leaves
\* the connection open
PeerStalls(c) ==
    /\ ReadPending(c)
    /\ ~stalled[c]
    /\ stalled' = [stalled EXCEPT ![c] = TRUE]
    /\ incoming' = [incoming EXCEPT ![c] = << >>]
    /\ UNCHANGED << serverVars, lookup, connVars, peer, buffer, eof, parsing, parser_exit,
                    lifeVars >>

\* asyncio.wait_for(read, self.read_timeout) raises TimeoutError: the read is
\* still pending when the timeout has elapsed   (mutant: no timeout is set)
wait_for_none(c) == FALSE

wait_for(c) == ReadPending(c)

\* _handle_client, lines 192-197, for an exception raised by http_parser: nothing
\* was written for a request   (mutant: a 400 is written first)
AbortReadWith400(w, defaults) ==
    Sent(SendSync(HttpResponse(400, NoHeaders, None, None), defaults), "miss", w)

AbortRead(w, defaults) == CloseClient(None, w, defaults)

\* http_parser resumes on c and runs to its next await with the outcome o
Resumed(c, o) ==
    /\ pc[c] = "AwaitingRequest"
    /\ CanReturn(parsing[c], buffer[c]) \/ eof[c]
    /\ buffer' = [buffer EXCEPT ![c] = o.buffer]
    /\ parsing' = [parsing EXCEPT ![c] = IF o.kind = "more" THEN o.parsing ELSE NotParsing]
    /\ parser_exit' = [parser_exit EXCEPT ![c] = IF o.kind = "raise" THEN o.exc
                                                 ELSE IF o.kind = "none" THEN "None" ELSE @]
    /\ CASE o.kind = "request" ->
                /\ Dispatch(c, Get(o.request))
                /\ UNCHANGED << frozenServer, io_failed, n_sent >>
         [] o.kind = "more" -> UNCHANGED << serverVars, lookup, connVars >>
         [] o.kind = "none" ->
                /\ pc' = [pc EXCEPT ![c] = "Closed"]        \* line 180: break, then finally
                /\ UNCHANGED << serverVars, lookup, request, found, response, ctx, wire,
                                handler_calls, io_failed, n_read, n_sent >>
         [] OTHER ->
                /\ \E eff \in { AbortRead(wire[c], _default_response_headers) } : ApplyIn(c, eff)
                /\ UNCHANGED << frozenServer, io_failed, n_read, n_sent >>
    /\ UNCHANGED << peer, incoming, eof, stalled, lifeVars >>

\* http_util.py line 113: the read of the request line ends
ReadRequestLine(c) ==
    /\ parsing[c].stage = "line"
    /\ Resumed(c, request_line(parsing[c], buffer[c]))

\* http_util.py line 125: the read of a header line ends
ReadHeaderLine(c) ==
    /\ parsing[c].stage = "headers"
    /\ Resumed(c, header_line(parsing[c], buffer[c]))

\* http_util.py line 135: the read of the body ends
ReadBody(c) ==
    /\ parsing[c].stage = "body"
    /\ Resumed(c, body_read(parsing[c], buffer[c]))

\* the timeout of the read c is suspended in elapses: wait_for cancels the read and
\* raises TimeoutError
ReadTimeout(c) ==
    /\ pc[c] = "AwaitingRequest"
    /\ wait_for(c)
    /\ parser_exit' = [parser_exit EXCEPT ![c] = "TimeoutError"]
    /\ parsing' = [parsing EXCEPT ![c] = NotParsing]
    /\ \E eff \in { AbortRead(wire[c], _default_response_headers) } : ApplyIn(c, eff)
    /\ UNCHANGED << frozenServer, io_failed, n_read, n_sent, peer, incoming, buffer, eof,
                    stalled, lifeVars >>

\* http_parser ends the loop: end of stream, a timeout or a malformed message
ReadEnd(c) ==
    /\ pc[c] = "AwaitingRequest"
    /\ pc' = [pc EXCEPT ![c] = "Closed"]
    /\ UNCHANGED << serverVars, lookup, request, found, response, ctx, wire,
                    handler_calls, io_failed, n_read, n_sent, readerVars, lifeVars >>

Resume(req, mapping, w, defaults) ==
    AfterCall(Call(Get(mapping).method,
                   _convert_params(req, Get(mapping).route, Get(mapping).method).args, req),
              w, defaults)

\* line 210: the awaited coroutine of the handler finishes
HandlerDone(c) ==
    /\ pc[c] = "AwaitingHandler"
    /\ \E eff \in { Resume(Get(request[c]), found[c], wire[c], _default_response_headers) } :
           ApplyIn(c, eff)
    /\ UNCHANGED << frozenServer, io_failed, n_read, n_sent, readerVars, lifeVars >>

Here(c, p, w) == Effect(p, ctx[c], response[c], w, _default_response_headers)

Throw(c) == Raised(ctx[c], response[c], wire[c], _default_response_headers)

FileOf(c) == open_rb(Get(Get(response[c]).file_path))

\* http_util.py lines 166-167: the drain before a file, then open(file_path)
DrainFile(c, ok) ==
    /\ pc[c] = "DrainFile"
    /\ \E eff \in { IF ok /\ ~IsNone(FileOf(c)) THEN Here(c, "SendFile", wire[c])
                    ELSE Throw(c) } : ApplyIn(c, eff)
    /\ io_failed' = [io_failed EXCEPT ![c] = @ \/ ~ok]
    /\ UNCHANGED << frozenServer, n_read, n_sent, readerVars, lifeVars >>

\* http_util.py line 168: sendfile streams the file
SendFile(c, ok) ==
    /\ pc[c] = "SendFile"
    /\ \E eff \in { IF ok THEN Here(c, "Drain", Append(wire[c], Payload(Get(FileOf(c)))))
                    ELSE Throw(c) } : ApplyIn(c, eff)
    /\ io_failed' = [io_failed EXCEPT ![c] = @ \/ ~ok]
    /\ UNCHANGED << frozenServer, n_read, n_sent, readerVars, lifeVars >>

\* http_util.py line 169: the last drain; the response is sent and the loop reads again
Drain(c, ok) ==
    /\ pc[c] = "Drain"
    /\ \E eff \in { IF ok THEN Effect("AwaitingRequest", "", None, << >>,
                                      _default_response_headers)
                    ELSE Throw(c) } : ApplyIn(c, eff)
    /\ n_sent' = [n_sent EXCEPT ![c] = IF ok THEN @ + 1 ELSE @]
    /\ io_failed' = [io_failed EXCEPT ![c] = @ \/ ~ok]
    /\ UNCHANGED << frozenServer, n_read, readerVars, lifeVars >>

Next ==
    \/ \E h \in AppHandlers : add_handler(h)
    \/ \E h \in DefaultHeaderInputs : add_default_response_headers(h)
    \/ start
    \/ \E c \in Conns : Accept(c)
    \/ \E c \in Conns, req \in Requests : HandleRequest(c, req)
    \/ \E c \in Conns : ReadEnd(c)
    \/ \E c \in Conns : HandlerDone(c)
    \/ \E c \in Conns, ok \in BOOLEAN : DrainFile(c, ok)
    \/ \E c \in Conns, ok \in BOOLEAN : SendFile(c, ok)
    \/ \E c \in Conns, ok \in BOOLEAN : Drain(c, ok)

Spec == Init /\ [][Next]_vars

\* the route table on its own: registrations in any order, then lookups
NextRoutes ==
    \/ \E h \in RouteHandlers : add_handler(h)
    \/ \E req \in RouteRequests : Lookup(req)

SpecRoutes == Init /\ [][NextRoutes]_vars

\* The server of demo.py, started, with peers that follow scripts: the first
\* connection any script, the second one of OtherScripts, the others send nothing.
InitParser ==
    /\ _server = Some("listener")
    /\ _default_response_headers = HttpHeaders
    /\ _static_routes = RegisterAll([static |-> << >>, regex |-> << >>],
                                    _scan_handler_for_uri_routes(MyHandler)).static
    /\ _regex_routes = RegisterAll([static |-> << >>, regex |-> << >>],
                                   _scan_handler_for_uri_routes(MyHandler)).regex
    /\ registered = << "MyHandler" >>
    /\ defaults_added = << >>
    /\ lookup = None
    /\ pc = [c \in Conns |-> "NotAccepted"]
    /\ request = [c \in Conns |-> None]
    /\ found = [c \in Conns |-> None]
    /\ response = [c \in Conns |-> None]
    /\ ctx = [c \in Conns |-> ""]
    /\ wire = [c \in Conns |-> << >>]
    /\ handler_calls = [c \in Conns |-> << >>]
    /\ io_failed = [c \in Conns |-> FALSE]
    /\ n_read = [c \in Conns |-> 0]
    /\ n_sent = [c \in Conns |-> 0]
    /\ peer \in [Conns -> Scripts]
    /\ \A c \in Conns : c = 2 => peer[c] \in OtherScripts
    /\ \A c \in Conns : c > 2 => peer[c] \in IdleScripts
    /\ incoming = [c \in Conns |-> Chunks(peer[c])]
    /\ buffer = [c \in Conns |-> ""]
    /\ eof = [c \in Conns |-> FALSE]
    /\ stalled = [c \in Conns |-> FALSE]
    /\ parsing = [c \in Conns |-> NotParsing]
    /\ parser_exit = [c \in Conns |-> ""]
    /\ CallsIdle

NextParser ==
    \/ \E c \in Conns : Accept(c)
    \/ \E c \in Conns : feed_data(c)
    \/ \E c \in Conns : feed_eof(c)
    \/ \E c \in Conns : PeerStalls(c)
    \/ \E c \in Conns : ReadRequestLine(c)
    \/ \E c \in Conns : ReadHeaderLine(c)
    \/ \E c \in Conns : ReadBody(c)
    \/ \E c \in Conns : ReadTimeout(c)
    \/ \E c \in Conns : HandlerDone(c)
    \/ \E c \in Conns, ok \in BOOLEAN : Drain(c, ok)

SpecParser == InitParser /\ [][NextParser]_vars

\* the timeout of a pending read elapses: the event loop runs the timer wait_for set
SpecParserFair == SpecParser /\ \A c \in Conns : WF_vars(ReadTimeout(c))

\* the calls of start and serve_forever the application makes, in any order and
\* interleaved at their awaits
NextLifecycle ==
    \/ \E k \in Calls : start_called(k)
    \/ \E k \in Calls, ok \in BOOLEAN : start_server_returns(k, ok)
    \/ \E k \in Calls : serve_forever(k)

SpecLifecycle == Init /\ [][NextLifecycle]_vars

\* routing and binding on their own: registrations in any order, then requests
NextBind ==
    \/ \E h \in BindHandlers : add_handler(h)
    \/ \E req \in BindRequests : Bind(req)

SpecBind == Init /\ [][NextBind]_vars

(***************************************************************************)
(* Reading what a connection was sent, and the request it is serving.      *)
(***************************************************************************)
\* the positions of w that hold a token of type t
TokensAt(w, t) == { i \in 1 .. Len(w) : w[i].t = t }

\* w is one HTTP response: a status line, header lines, a blank line, and after it
\* nothing or one payload
IsResponse(w) ==
    /\ Len(w) >= 2
    /\ TokensAt(w, "status") = { 1 }
    /\ \E b \in 2 .. Len(w) :
           /\ TokensAt(w, "blank") = { b }
           /\ TokensAt(w, "header") = 2 .. b - 1
           /\ TokensAt(w, "payload") = b + 1 .. Len(w)
           /\ Len(w) <= b + 1

StatusOf(w) == w[1].k

PayloadOf(w) == IF TokensAt(w, "payload") = {} THEN "" ELSE w[Len(w)].v

\* the values w carries for the header name, in the order written; names of
\* header lines compare without case
WireValues(w, name) ==
    LET Named(tok) == tok.t = "header" /\ Lower(tok.k) = Lower(name)
        lines == SelectSeq(w, Named)
    IN  [i \in 1 .. Len(lines) |-> lines[i].v]

\* the response to the request of c is completely written and nothing of the
\* transport of c has failed
Answered(c) == pc[c] = "Drain" /\ ~io_failed[c]

\* c serves a request that matched a route
Matched(c) == ~IsNone(request[c]) /\ ~IsNone(found[c])

\* c serves a request that matched nothing
Missed(c) == ~IsNone(request[c]) /\ IsNone(found[c])

BoundAt(c) == _convert_params(Get(request[c]), Get(found[c]).route, Get(found[c]).method)

OutcomeAt(c) == Call(Get(found[c]).method, BoundAt(c).args, Get(request[c]))

\* the binding or the handler of the request of c has raised
RaisedAt(c) ==
    /\ Matched(c)
    /\ pc[c] # "AwaitingHandler"
    /\ ~BoundAt(c).ok \/ OutcomeAt(c).kind \in { "raise", "raise_response" }

\* the headers of the response the handler of c returned; empty when it returned
\* no response or one without headers
ReturnedHeaders(c) ==
    IF Matched(c) /\ BoundAt(c).ok /\ OutcomeAt(c).kind = "response"
       /\ OutcomeAt(c).response.headers.ref = "own"
    THEN OutcomeAt(c).response.headers.h
    ELSE HttpHeaders

\* every (method, route) pair registered so far, in the order of registration
RECURSIVE ScannedFrom(_)
ScannedFrom(names) ==
    IF names = << >> THEN << >>
    ELSE _scan_handler_for_uri_routes(HandlerObject(Head(names))) \o ScannedFrom(Tail(names))

Accepts(p, req) == req.method \in SeqToSet(http_methods(p.route))

\* the registered exact routes for the method and path of req
ExactFor(req) ==
    { p \in SeqToSet(ScannedFrom(registered)) :
          is_static(p.route) /\ p.route.path.s = req.path /\ Accepts(p, req) }

\* the registered pattern and variable routes, in the order of registration
PatternsRegistered ==
    LET NotStatic(p) == ~is_static(p.route)
    IN  SelectSeq(ScannedFrom(registered), NotStatic)

\* the positions of PatternsRegistered whose pattern matches the path of req
PathMatches(req) ==
    { i \in 1 .. Len(PatternsRegistered) :
          re_match(PatternsRegistered[i].route.path.re, req.path) }

\* those that also accept its method
FullMatches(req) == { i \in PathMatches(req) : Accepts(PatternsRegistered[i], req) }

Min(S) == CHOOSE x \in S : \A y \in S : x <= y

AsMapping(p) == Some([route |-> p.route, method |-> p.method])

(***************************************************************************)
(* The properties.                                                         *)
(***************************************************************************)

\* C1: on every connection at most one request is between parsed and response
\* fully sent, and the loop waits for a request only when every request it has read
\* has had its response written and flushed
C1_NoPipelining ==
    \A c \in Conns :
        /\ n_read[c] - n_sent[c] \in { 0, 1 }
        /\ pc[c] = "AwaitingRequest" => n_read[c] = n_sent[c]
        /\ n_read[c] - n_sent[c] = 1 => ~IsNone(request[c]) \/ pc[c] = "Closed"

\* a second request of a connection is being answered after the first was sent
C1_Witness ==
    \E c \in Conns : n_read[c] = 2 /\ n_sent[c] = 1 /\ pc[c] = "Drain"

\* C2: when everything the loop writes for a parsed request has been written (and
\* the transport did not fail), what the connection was sent for that request is
\* one syntactically valid response: status line, headers, blank line, payload
C2_ValidResponse ==
    \A c \in Conns : Answered(c) => IsResponse(wire[c])

\* C3: when the binding or the handler of a matched request raises, the connection
\* is sent exactly a 500 response and is not closed, and once that response is
\* flushed the loop is back at AwaitingRequest with the response counted as sent
C3_RaiseGives500 ==
    /\ [](\A c \in Conns :
              (RaisedAt(c) /\ ~io_failed[c]) =>
                  /\ pc[c] = "Drain"
                  /\ IsResponse(wire[c])
                  /\ StatusOf(wire[c]) = "500")
    /\ [][\A c \in Conns :
              (pc[c] = "Drain" /\ pc'[c] # pc[c] /\ ~io_failed'[c] /\ RaisedAt(c)) =>
                  /\ pc'[c] = "AwaitingRequest"
                  /\ n_sent'[c] = n_sent[c] + 1]_vars

\* a connection that has served a request is sent the 500 of its next request,
\* whose handler raised
C3_Witness ==
    \E c \in Conns :
        /\ RaisedAt(c) /\ Answered(c)
        /\ BoundAt(c).ok /\ OutcomeAt(c).kind = "raise"
        /\ StatusOf(wire[c]) = "500"
        /\ n_sent[c] = 1

\* C4: when the handler signals a structured error carrying a response, the
\* response sent has exactly the status, the headers and the body it carries
C4_StructuredError ==
    \A c \in Conns :
        (Answered(c) /\ Matched(c) /\ BoundAt(c).ok
             /\ OutcomeAt(c).kind = "raise_response") =>
            /\ IsResponse(wire[c])
            /\ StatusOf(wire[c]) = IntStr(OutcomeAt(c).response.status_code)
            /\ PayloadOf(wire[c]) = Get(OutcomeAt(c).response.body)
            /\ \A i \in 1 .. Len(OutcomeAt(c).response.headers.h) :
                   \E j \in 1 .. Len(wire[c]) :
                       /\ wire[c][j].t = "header"
                       /\ wire[c][j].k = OutcomeAt(c).response.headers.h[i].k
                       /\ wire[c][j].v = OutcomeAt(c).response.headers.h[i].l[1]

\* C5: a request that matches no route is sent exactly a 404 response with an
\* empty body, no handler is invoked for it, and once the response is flushed the
\* loop is back at AwaitingRequest, the connection open
C5_Miss404 ==
    [][\A c \in Conns :
          /\ (Missed(c)' /\ ~io_failed'[c]) =>
                 /\ pc'[c] = "Drain"
                 /\ IsResponse(wire'[c])
                 /\ StatusOf(wire'[c]) = "404"
                 /\ PayloadOf(wire'[c]) = ""
                 /\ handler_calls'[c] = << >>
          /\ (Missed(c) /\ pc[c] = "Drain" /\ ~io_failed'[c] /\ pc'[c] # pc[c]) =>
                 /\ pc'[c] = "AwaitingRequest"
                 /\ n_sent'[c] = n_sent[c] + 1]_vars

\* with routes registered, a request that matches none of them has its 404 written
C5_Witness ==
    \E c \in Conns :
        /\ Missed(c) /\ Answered(c)
        /\ Len(registered) = 2
        /\ StatusOf(wire[c]) = "404"

\* C6: when an exact route is registered for the method and path and a registered
\* pattern or variable route accepts the method and matches the path, _find_route
\* returns an exact route's handler, in whatever order they were registered
C6_ExactWins ==
    \A i \in 1 .. Len(lookup) :
        (ExactFor(lookup[i].request) # {} /\ FullMatches(lookup[i].request) # {}) =>
            lookup[i].result \in { AsMapping(p) : p \in ExactFor(lookup[i].request) }

\* a lookup where the pattern was registered before the exact route that wins
C6_Witness ==
    \E i \in 1 .. Len(lookup) :
        /\ ExactFor(lookup[i].request) # {}
        /\ FullMatches(lookup[i].request) # {}
        /\ registered = << "PrefixHandler", "ExactHandler" >>
        /\ Get(lookup[i].result).method = "exact_a"

\* C7: when no exact route is registered for the method and path, _find_route
\* returns the earliest registered pattern or variable route that accepts the
\* method and matches the path, and nothing when there is none
C7_FirstPattern ==
    \A i \in 1 .. Len(lookup) :
        ExactFor(lookup[i].request) = {} =>
            lookup[i].result =
                IF FullMatches(lookup[i].request) = {} THEN None
                ELSE AsMapping(PatternsRegistered[Min(FullMatches(lookup[i].request))])

\* a lookup that skips an entry matching the path but not the method, and has a
\* later registered entry that matches as well
C7_Witness ==
    \E i \in 1 .. Len(lookup) :
        /\ ExactFor(lookup[i].request) = {}
        /\ \E a, b, d \in PathMatches(lookup[i].request) :
               /\ a < b /\ b < d
               /\ a \notin FullMatches(lookup[i].request)
               /\ b = Min(FullMatches(lookup[i].request))
               /\ d \in FullMatches(lookup[i].request)
        /\ ~IsNone(lookup[i].result)

\* C8: a response sent carries every default header whose name the handler's
\* response did not set, and for a name set by both it carries the handler's
\* values only (content-length, which the serializer sets, aside)
C8_HandlerPrecedence ==
    \A c \in Conns :
        (Answered(c) /\ IsResponse(wire[c])) =>
            \A i \in 1 .. Len(_default_response_headers) :
                LET name == _default_response_headers[i].k
                    own == get_list(ReturnedHeaders(c), name)
                IN  Lower(name) # "content-length" =>
                        WireValues(wire[c], name) =
                            IF IsNone(own) THEN _default_response_headers[i].l
                            ELSE Get(own)

\* C9: once the server is started no step changes the route table or the table of
\* default headers
C9_SharedTablesFrozen ==
    [][~IsNone(_server) =>
          UNCHANGED << _static_routes, _regex_routes, _default_response_headers >>]_vars

\* C10: a response written carries exactly one content-length header, whose value
\* is the number of payload bytes written after the blank line
C10_OneContentLength ==
    \A c \in Conns :
        (Answered(c) /\ IsResponse(wire[c])) =>
            WireValues(wire[c], "content-length") = << IntStr(Len(PayloadOf(wire[c]))) >>

\* the handler of c was called and has returned (a coroutine handler: was awaited)
ReturnedAt(c) ==
    /\ Matched(c)
    /\ pc[c] # "AwaitingHandler"
    /\ BoundAt(c).ok
    /\ OutcomeAt(c).kind \in { "response", "none", "value" }

\* C11: the returned value is normalized into the response sent: a response keeps
\* its status, no value gives 204 with an empty body, any other value gives 200
\* with its JSON text as body and content-length its length; while a coroutine
\* handler is awaited nothing has been written
C11_Normalized ==
    \A c \in Conns :
        /\ pc[c] = "AwaitingHandler" => wire[c] = << >>
        /\ (ReturnedAt(c) /\ Answered(c)) =>
               /\ (OutcomeAt(c).kind = "response"
                       /\ ~IsNone(HTTPStatus(OutcomeAt(c).response.status_code))) =>
                      StatusOf(wire[c]) = IntStr(OutcomeAt(c).response.status_code)
               /\ OutcomeAt(c).kind = "none" =>
                      /\ IsResponse(wire[c])
                      /\ StatusOf(wire[c]) = "204"
                      /\ PayloadOf(wire[c]) = ""
               /\ (OutcomeAt(c).kind = "value" /\ ~IsNone(json_dumps(OutcomeAt(c).value))) =>
                      /\ IsResponse(wire[c])
                      /\ StatusOf(wire[c]) = "200"
                      /\ PayloadOf(wire[c]) = Get(json_dumps(OutcomeAt(c).value))
                      /\ WireValues(wire[c], "content-length") =
                             << IntStr(Len(Get(json_dumps(OutcomeAt(c).value)))) >>

\* the argument a handler is to be given for query_params: the query mapping d
QueryArgument(d) == [t |-> "query", s |-> "", d |-> d]

\* C12: a handler that declares query_params is called with the parsed query
\* mapping of the request as that argument
C12_QueryParams ==
    \A c \in Conns :
        (Matched(c) /\ handler_calls[c] # << >>) =>
            \A i \in 2 .. Len(Get(found[c]).route.call_args) :
                Get(found[c]).route.call_args[i] = "query_params" =>
                    BoundAt(c).args[i - 1] = QueryArgument(Get(request[c]).query_params)

\* A route template read as its literal parts and the names between them:
\* lits[1] {names[1]} lits[2] ... {names[n]} lits[n + 1]
Template(lits, names) == [lits |-> lits, names |-> names]

\* the templates of the variable routes, by the attribute they decorate
TemplateOf(attr) ==
    CASE attr = "test_variable" -> Template(<< "/aaa/", "" >>, << "bbb" >>)
      [] attr = "test_due" -> Template(<< "/aaa/", "/ccc/", "" >>, << "bbb", "ddd" >>)
      [] OTHER -> Template(<< "/t/", "/", "/", "" >>, << "a", "b", "c" >>)

\* the template with vals[i] in the place of its i-th variable
RECURSIVE Fill(_, _, _)
Fill(t, vals, i) ==
    IF i > Len(t.names) THEN t.lits[i]
    ELSE t.lits[i] \o vals[i] \o Fill(t, vals, i + 1)

\* the runs of path without a '/', the empty run among them
Runs(path) ==
    { SubSeq(path, i, j) : i \in 1 .. Len(path) + 1, j \in 0 .. Len(path) }
        \ { r \in { SubSeq(path, i, j) : i \in 1 .. Len(path), j \in 1 .. Len(path) } :
                \E x \in 1 .. Len(r) : Char(r, x) = "/" }

\* the ways path is the template with a run without '/' at every placeholder
Fillings(t, path) ==
    { vals \in [1 .. Len(t.names) -> Runs(path)] : Fill(t, vals, 1) = path }

\* the mapping of each name of t to its value
MappingOf(t, vals) == [i \in 1 .. Len(t.names) |-> [k |-> t.names[i], l |-> vals[i]]]

\* the registered variable routes
VariablesRegistered ==
    { p \in SeqToSet(ScannedFrom(registered)) : ~IsNone(p.route.uri_variables) }

\* C13: a variable route matches a path exactly when the path is its template with
\* a run of non-'/' characters at each placeholder and nothing left over, and the
\* uri_variables argument then maps each variable, in template order, to the run
\* at its placeholder (one variable as well as two or three)
C13_UriVariables ==
    \A L \in SeqToSet(lookup) :
        /\ \A p \in VariablesRegistered :
               /\ Get(p.route.uri_variables) = TemplateOf(p.method).names
               /\ match(p.route, L.request.method, L.request.path)
                      <=> /\ Accepts(p, L.request)
                          /\ Fillings(TemplateOf(p.method), L.request.path) # {}
        /\ \A m \in SeqToSet(L.result) :
               \A i \in 2 .. Len(m.route.call_args) :
                   (~IsNone(m.route.uri_variables) /\ m.route.call_args[i] = "uri_variables") =>
                       /\ Fillings(TemplateOf(m.method), L.request.path) # {}
                       /\ Get(L.bound).ok
                       /\ \A vals \in Fillings(TemplateOf(m.method), L.request.path) :
                              Get(L.bound).args[i - 1] = PyDict(MappingOf(TemplateOf(m.method), vals))

\* /aaa/1/ccc/2 was bound for /aaa/{bbb}/ccc/{ddd}: {bbb: "1", ddd: "2"}
C13_Witness ==
    \E L \in SeqToSet(lookup) :
        /\ L.request.path = "/aaa/1/ccc/2"
        /\ ~IsNone(L.result) /\ Get(L.result).method = "test_due"
        /\ Get(L.bound).args = << PyDict(<< [k |-> "bbb", l |-> "1"], [k |-> "ddd", l |-> "2"] >>) >>

\* the ways a read of http_parser fails
ReadFailures == { "TimeoutError", "IncompleteReadError", "IndexError", "ValueError" }

\* a read of c fails in this step
ReadFails(c) == parser_exit[c] = "" /\ parser_exit'[c] \in ReadFailures

\* C14: a step in which a read of a connection fails (timeout, end of stream, a
\* request line of fewer than 3 tokens, another parse failure) takes that
\* connection from its read to Closed with nothing written, and changes nothing of
\* any other connection, of the listener or of the tables of the server
C14_ReadFailureCloses ==
    [][\A c \in Conns :
           ReadFails(c) =>
               /\ pc[c] = "AwaitingRequest" /\ pc'[c] = "Closed"
               /\ wire[c] = << >> /\ wire'[c] = << >>
               /\ n_sent'[c] = n_sent[c]
               /\ \A d \in Conns \ { c } :
                      /\ pc'[d] = pc[d] /\ wire'[d] = wire[d]
                      /\ request'[d] = request[d] /\ response'[d] = response[d]
                      /\ buffer'[d] = buffer[d] /\ parsing'[d] = parsing[d]
                      /\ parser_exit'[d] = parser_exit[d]
                      /\ n_read'[d] = n_read[d] /\ n_sent'[d] = n_sent[d]
               /\ _server' = _server
               /\ _static_routes' = _static_routes /\ _regex_routes' = _regex_routes
               /\ _default_response_headers' = _default_response_headers]_vars

\* a request line of two tokens has closed one connection while the response of
\* another is being flushed
C14_Witness ==
    \E c, d \in Conns :
        /\ parser_exit[c] = "IndexError" /\ pc[c] = "Closed"
        /\ pc[d] = "Drain" /\ IsResponse(wire[d])

\* C15: a connection whose read is pending (for a request line, a header line or
\* the body, the next request of a kept-alive connection included) and whose peer
\* has stopped delivering eventually is Closed
C15_StalledReadTimesOut ==
    \A c \in Conns : (ReadPending(c) /\ stalled[c]) ~> (pc[c] = "Closed")

\* the read of the next request of a connection that has been answered timed out
C15_Witness ==
    \E c \in Conns :
        /\ stalled[c] /\ n_sent[c] > 0
        /\ parser_exit[c] = "TimeoutError" /\ pc[c] = "Closed"

\* str.lower() of the ASCII letters
RECURSIVE LowerCase(_)
LowerCase(s) ==
    IF s = "" THEN ""
    ELSE (IF Find("ABCDEFGHIJKLMNOPQRSTUVWXYZ", Char(s, 1), 1) = 0 THEN Char(s, 1)
          ELSE Char("abcdefghijklmnopqrstuvwxyz",
                    Find("ABCDEFGHIJKLMNOPQRSTUVWXYZ", Char(s, 1), 1)))
         \o LowerCase(SubSeq(s, 2, Len(s)))

\* the message whose request c is serving, of a peer that sends well-formed messages
SentTo(c) == ScriptMessages(peer[c])[n_read[c]]

ServingSent(c) ==
    /\ ~IsNone(request[c])
    /\ n_read[c] \in 1 .. Len(ScriptMessages(peer[c]))

\* the values of the header lines of m named name in any casing, in arrival order
ValuesOf(m, name) ==
    LET Named(line) == LowerCase(line[1]) = LowerCase(name)
        lines == SelectSeq(m.headers, Named)
    IN  [i \in 1 .. Len(lines) |-> lines[i][2]]

\* req holds the headers of m: every value under its lower-cased name, repeated
\* names in arrival order, and no other name
HoldsHeaders(req, m) ==
    /\ DictKeys(req.headers) = { LowerCase(m.headers[i][1]) : i \in 1 .. Len(m.headers) }
    /\ \A i \in 1 .. Len(m.headers) :
           DictGet(req.headers, LowerCase(m.headers[i][1]))
               = Some(ValuesOf(m, m.headers[i][1]))

\* req holds the body of m: its bytes when there are any (content-length is their
\* number), absent otherwise
HoldsBody(req, m) ==
    /\ m.body # "" => ValuesOf(m, "content-length") = << IntStr(Len(m.body)) >>
    /\ req.body = IF m.body = "" THEN None ELSE Some(m.body)

\* the number of '/' a path begins with
LeadingSlashes(path) ==
    Max({ n \in 0 .. Len(path) : \A i \in 1 .. n : Char(path, i) = "/" })

\* a path with a leading run of two or more '/' reduced to one
Collapsed(path) ==
    IF LeadingSlashes(path) >= 2 THEN SubSeq(path, LeadingSlashes(path), Len(path))
    ELSE path

\* C16 as stated: the request parsed from a well-formed message has the method and
\* the path of its request line, its headers and its body
C16_PathOfRequestLine ==
    \A c \in Conns :
        ServingSent(c) =>
            /\ Get(request[c]).method = SentTo(c).method
            /\ Get(request[c]).path = SentTo(c).path
            /\ HoldsHeaders(Get(request[c]), SentTo(c))
            /\ HoldsBody(Get(request[c]), SentTo(c))

\* C16: the request parsed from a well-formed message has the method of its
\* request line, the path of its request line with a leading run of '/' reduced to
\* one and without the query, every header value under its lower-cased name with
\* repeated names in arrival order, and as body the content-length bytes after the
\* blank line, absent when there are none
C16_RoundTrip ==
    \A c \in Conns :
        ServingSent(c) =>
            /\ Get(request[c]).method = SentTo(c).method
            /\ Get(request[c]).path = Collapsed(SentTo(c).path)
            /\ HoldsHeaders(Get(request[c]), SentTo(c))
            /\ HoldsBody(Get(request[c]), SentTo(c))

\* a message with a path that begins with //, a query and a repeated header name
\* was parsed
C16_Witness ==
    \E c \in Conns :
        /\ ServingSent(c)
        /\ SentTo(c).path = "//bar"
        /\ Get(request[c]).path = "/bar"
        /\ DictGet(Get(request[c]).headers, "x-foo") = Some(<< "a", "b" >>)

\* C17: every name stored in the table of default headers is lower-case, and
\* get_list and get give the same for a stored name as for its lower-case form
C17_LowerCaseNames ==
    \A i \in 1 .. Len(_default_response_headers) :
        /\ _default_response_headers[i].k = LowerCase(_default_response_headers[i].k)
        /\ get_list(_default_response_headers, _default_response_headers[i].k)
               = get_list(_default_response_headers,
                          LowerCase(_default_response_headers[i].k))
        /\ get(_default_response_headers, _default_response_headers[i].k, "")
               = get(_default_response_headers,
                     LowerCase(_default_response_headers[i].k), "")

\* the call k of start is made in this step
StartIsCalled(k) ==
    call_pc[k] = "idle" /\ call_pc'[k] \in { "start_raised", "start_creating" }

\* the call k of serve_forever is made in this step
ServeIsCalled(k) ==
    call_pc[k] = "idle" /\ call_pc'[k] \in { "serve_raised", "serving" }

\* C18: start called when the server has a listener raises and leaves the
\* listener as it is, creating none; serve_forever called when the server has
\* no listener raises and does not serve
C18_StartTwiceFails ==
    [][\A k \in Calls :
           /\ (StartIsCalled(k) /\ ~IsNone(_server)) =>
                  /\ call_pc'[k] = "start_raised"
                  /\ _server' = _server
                  /\ created' = created
           /\ (ServeIsCalled(k) /\ IsNone(_server)) =>
                  /\ call_pc'[k] = "serve_raised"
                  /\ _server' = _server]_vars

\* serve_forever was refused before the server was started, and a second start
\* after it was
C18_Witness ==
    \E j, k \in Calls :
        /\ call_pc[j] = "serve_raised"
        /\ call_pc[k] = "start_raised"
        /\ _server = Some("listener") /\ created = << "listener" >>

\* the handler of c returned a response whose status code is not a standard one
ReturnedBadStatus(c) ==
    /\ ReturnedAt(c)
    /\ OutcomeAt(c).kind = "response"
    /\ IsNone(HTTPStatus(OutcomeAt(c).response.status_code))

\* C19: nothing of a response with a status code that is not standard is written:
\* the connection carries no status line with its code, and what it carries for the
\* request begins with the status line of the 500 sent in its place
C19_BadStatusUnwritten ==
    \A c \in Conns :
        ReturnedBadStatus(c) =>
            /\ \A i \in TokensAt(wire[c], "status") :
                   wire[c][i].k # IntStr(OutcomeAt(c).response.status_code)
            /\ wire[c] # << >> =>
                   /\ wire[c][1].t = "status"
                   /\ wire[c][1].k = "500"

\* a handler returned a response of status 999 and the request was answered 500
C19_Witness ==
    \E c \in Conns :
        /\ ReturnedBadStatus(c)
        /\ OutcomeAt(c).response.status_code = 999
        /\ Answered(c)
        /\ StatusOf(wire[c]) = "500"

\* c waits for a request line, nothing of it has been read and the stream has ended
EndedBeforeRequest(c) ==
    /\ pc[c] = "AwaitingRequest"
    /\ parsing[c].stage = "line"
    /\ buffer[c] = ""
    /\ eof[c]

\* C20: when the stream has ended with nothing read of a request line, the loop
\* of the connection ends because http_parser returned None, not by an exception,
\* and the connection is closed
C20_CleanClose ==
    [][\A c \in Conns :
           (EndedBeforeRequest(c) /\ pc'[c] # pc[c]) =>
               /\ pc'[c] = "Closed"
               /\ parser_exit'[c] = "None"]_vars

\* C21: what a connection is given for one request never holds bytes of two
\* responses: at most one status line, and it is the first thing written (checked
\* where the transport itself has not failed, so that every byte given to the
\* writer is carried by the connection)
C21_OneResponsePerRequest ==
    \A c \in Conns :
        ~io_failed[c] =>
            /\ Cardinality(TokensAt(wire[c], "status")) <= 1
            /\ TokensAt(wire[c], "status") \subseteq { 1 }

\* C22: however the calls of start interleave, at most one listener is ever
\* created, at most one call of start succeeds, and the listener created first
\* stays the listener of the server
C22_OneListener ==
    /\ Len(created) <= 1
    /\ Cardinality({ k \in Calls : call_pc[k] = "start_done" }) <= 1
    /\ created # << >> => _server = Some(created[1])

====
